---- MODULE Spec2Model ----
(***************************************************************************)
(* rustradio: the mirror-mapped circular buffer (src/circular_buffer.rs).  *)
(*                                                                         *)
(* Circ is a byte ring whose backing file is mapped twice back to back;    *)
(* Buffer<T> keeps rpos, wpos and used, in samples of size_of::<T>() bytes,*)
(* on top of it.  Memory is modelled at byte granularity: `file` holds the *)
(* bytes of the backing tempfile, circ.map is the page table built by the  *)
(* mmap/munmap calls of Circ::new, and a sample is stored as size_of       *)
(* little-endian bytes.                                                    *)
(*                                                                         *)
(* Spec     explores every produce/consume/write interleaving on a page    *)
(*          scaled down to PageSamples samples.                            *)
(* SpecPage runs the cursor arithmetic on the real 4096-byte page, in      *)
(*          batches that are multiples of capacity / 2^BatchLog samples.   *)
(*                                                                         *)
(* The second half models blocks and the graph that runs them              *)
(* (src/block.rs, src/debug_sink.rs, examples/ax25-1200-rx.rs): a source,  *)
(* a map block generated by map_block_macro_v2 and a DebugSink, joined by  *)
(* two streams.  Stream, Graph and CancelToken are not part of the source  *)
(* files at hand; they follow the specification's sections 4.2 to 4.4.     *)
(*                                                                         *)
(* SpecMap   lets the three blocks work in any order.                      *)
(* SpecGraph runs them under Graph::run, round-robin, with cancellation.   *)
(* SpecAny   does so with a sink whose work() may return anything.         *)
(* SpecTypes retrieves typed streams with get_input and get_output.        *)
(* SpecIIR   constructs a SinglePoleIIRFilter and sets its taps            *)
(*           (src/single_pole_iir_filter.rs).                              *)
(* SpecNew   follows Buffer::new and the drop of a buffer through the      *)
(*           operating system's calls, any of which may fail.              *)
(* SpecFilter runs Source -> SinglePoleIIRFilter -> DebugSink under       *)
(*           Graph::run.                                                   *)
(* SpecSink  steps through DebugSink::work while a producer thread writes  *)
(*           to the same stream under its mutex.                           *)
(***************************************************************************)
EXTENDS Integers, Sequences, FiniteSets

\* Page length of the source: `let len = 4096usize` in Circ::new.
PageLen == 4096

\* Scaled page: number of samples the page explored by Spec holds.
PageSamples == 4

\* Under SpecPage produce/consume move multiples of capacity / 2^BatchLog samples.
BatchLog == 2

\* size_of::<T>() of the instantiations the source exercises: u8 and Float (f32).
ElemSizes == {1, 4}

\* The scaled page length in bytes for samples of s bytes: a multiple of the
\* element size, as 4096 is.
SmallLen(s) == PageSamples * s

\* Sample values written by the producer: zero and a value whose first and
\* last byte are both non-zero and different.
Samples(s) == {0, 123 * (256 ^ (s - 1)) + s}

VARIABLES
    b,        \* the Buffer<T>: rpos, wpos, used, circ, size_of (the type parameter)
    file,     \* bytes of the backing tempfile, by file offset
    inflight, \* ghost: samples committed by produce and not yet consumed, oldest first
    op,       \* ghost: the last call made on the buffer, with its argument
    panicked, \* TRUE once an assert! of the buffer has failed
    blocks,   \* the graph's blocks, in the order they were added
    streams,  \* the graph's streams: streams[1] feeds the map block, streams[2] the sink
    src,      \* the source block: xs, the sequence it emits, and rest, what is left of it
    eof,      \* Graph::run: eof[n] is TRUE once block n has returned EOF
    pc,       \* Graph::run: where the scheduler is (phase, block index)
    cancel,   \* the CancelToken: set; ghosts calls, the number of cancel() calls so
              \* far, and at, where the runner was at the first of them
    result,   \* what Graph::run returned, "running" before that
    seen,     \* the samples the sink has printed, in order
    hist,     \* ghost: what the blocks and the scheduler have done so far
    io,       \* a block's InputStreams and OutputStreams and its last get_input /
              \* get_output call
    iir,      \* a SinglePoleIIRFilter, if one was constructed, and the last call on it
    os        \* the buffers constructed so far, each with its file descriptor and
              \* its pages of virtual memory

bvars == <<b, file, inflight, op, panicked>>

gvars == <<blocks, streams, src, eof, pc, cancel, result, seen, hist>>

ovars == <<io, iir, os>>

vars == <<bvars, gvars, ovars>>

\* No graph has been built: the state of the graph's variables wherever only
\* a buffer is exercised.
NoGraph ==
    /\ blocks = <<>>
    /\ streams = <<>>
    /\ src = <<>>
    /\ eof = <<>>
    /\ pc = "none"
    /\ cancel = "none"
    /\ result = "none"
    /\ seen = <<>>
    /\ hist = "none"

\* No typed streams are being retrieved.
NoTypes == io = "none"

\* No filter is being constructed.
NoIIR == iir = "none"

\* No construction of buffers is followed through the operating system.
NoOS == os = "none"

\* No buffer is exercised on its own.
NoBuffer ==
    /\ b = "none"
    /\ file = <<>>
    /\ inflight = <<>>
    /\ op = "none"
    /\ panicked = FALSE

----------------------------------------------------------------------------
(* Virtual memory: mmap / munmap as Circ::new uses them.                   *)

Unmapped == -1

\* mmap(addr, len, PROT_READ|PROT_WRITE, MAP_SHARED, fd, offset): virtual
\* bytes [addr, addr+length) now alias file bytes [offset, offset+length).
mmap(vm, addr, length, offset) ==
    [i \in DOMAIN vm |->
        IF addr <= i /\ i < addr + length THEN offset + (i - addr) ELSE vm[i]]

\* munmap(addr, length)
munmap(vm, addr, length) ==
    [i \in DOMAIN vm |->
        IF addr <= i /\ i < addr + length THEN Unmapped ELSE vm[i]]

\* A wrong Circ::new: the upper half keeps its own file bytes.
Circ_new_no_alias(len) ==
    LET len2 == len * 2
        none == [i \in 0..(len2 - 1) |-> Unmapped]
    IN  [len |-> len2, map |-> mmap(none, 0, len2, 0)]

\* Circ::new, with `len` the page length (4096 in the source).
Circ_new(len) ==
    LET len2   == len * 2
        none   == [i \in 0..(len2 - 1) |-> Unmapped]
        first  == mmap(none, 0, len2, 0)
        second == len
        upper  == munmap(first, second, len)
        both   == mmap(upper, second, len, 0)
    IN  [len |-> len2, map |-> both]

\* The tempfile after f.set_len(len2): len2 zero bytes.
tempfile(len) == [o \in 0..(len * 2 - 1) |-> 0]

\* Circ::len
Circ_len(circ) == circ.len \div 2

----------------------------------------------------------------------------
(* Samples in memory.                                                      *)

RECURSIVE from_le_bytes(_, _, _, _)
\* The sample of `s` bytes at virtual byte address `at`, read through the map.
from_le_bytes(circ, mem, at, s) ==
    IF s = 0 THEN 0
    ELSE mem[circ.map[at]] + 256 * from_le_bytes(circ, mem, at + 1, s - 1)

\* Byte k of the little-endian encoding of v.
le_byte(v, k) == (v \div (256 ^ k)) % 256

\* Store sample v of s bytes at virtual sample index j.
store(circ, mem, j, s, v) ==
    [o \in DOMAIN mem |->
        IF \E k \in 0..(s - 1) : circ.map[j * s + k] = o
        THEN le_byte(v, CHOOSE k \in 0..(s - 1) : circ.map[j * s + k] = o)
        ELSE mem[o]]

\* Circ::full_buffer::<T>: the whole doubly mapped region as a slice of T.
full_buffer(circ, mem, s) ==
    [j \in 1..(circ.len \div s) |-> from_le_bytes(circ, mem, (j - 1) * s, s)]

\* The length of that slice: self.len / size_of::<T>() samples.
full_buffer_len(circ, s) == circ.len \div s

\* assert!(self.len % size_of::<T>() == 0) of full_buffer
full_buffer_ok(circ, s) == circ.len % s = 0

----------------------------------------------------------------------------
(* Buffer<T>                                                               *)

\* assert_eq!(size, 4096) of Buffer::new, with `page` the page length.
Buffer_new_ok(size, page) == size = page

\* Buffer::new(size): Circ::new() maps the page, whatever `size` is.
Buffer_new(size, page, s) ==
    [rpos |-> 0, wpos |-> 0, used |-> 0, circ |-> Circ_new(page), size_of |-> s]

\* A wrong Buffer::capacity: counts bytes, not samples.
capacity_bytes(self) == Circ_len(self.circ)

\* Buffer::capacity, in samples
capacity(self) == Circ_len(self.circ) \div self.size_of

\* Buffer::free, in samples
free(self) == capacity(self) - self.used

\* A wrong write_range: the whole capacity is offered, whatever is in use.
write_range_whole(self) == <<self.wpos, self.wpos + Circ_len(self.circ) \div self.size_of>>

\* Buffer::write_range
write_range(self) == <<self.wpos, self.wpos + free(self)>>

\* A wrong read_range: the classic ring that derives the fill from the two
\* cursors, and so cannot tell a full buffer from an empty one.
read_range_by_cursors(self) ==
    IF self.rpos <= self.wpos
    THEN <<self.rpos, self.wpos>>
    ELSE <<self.rpos, self.wpos + Circ_len(self.circ) \div self.size_of>>

\* Buffer::read_range
read_range(self) == <<self.rpos, self.rpos + self.used>>

\* Buffer::write_capacity
write_capacity(self) == write_range(self)[2] - write_range(self)[1]

\* &buf[start..end]: panics unless start <= end <= buf.len(), here n.
slice_ok(n, r) == r[1] <= r[2] /\ r[2] <= n

\* &buf[start..end] as a sequence: element i is buf[start + i - 1] (buf is 1-based here).
slice(buf, n, r) ==
    IF slice_ok(n, r) THEN [i \in 1..(r[2] - r[1]) |-> buf[r[1] + i]] ELSE <<>>

\* A wrong read_buf: reading releases what was read.
read_buf_consuming(self, mem) ==
    LET buf == full_buffer(self.circ, mem, self.size_of)
        n   == full_buffer_len(self.circ, self.size_of)
        r   == read_range(self)
    IN  [self  |-> [self EXCEPT !.rpos = (self.rpos + self.used) % capacity(self),
                                !.used = 0],
         ret   |-> slice(buf, n, r),
         panic |-> ~(full_buffer_ok(self.circ, self.size_of) /\ slice_ok(n, r))]

\* Buffer::read_buf: the buffer after the call, the slice returned, and
\* whether the call panicked.
read_buf(self, mem) ==
    LET buf == full_buffer(self.circ, mem, self.size_of)
        n   == full_buffer_len(self.circ, self.size_of)
        r   == read_range(self)
    IN  [self  |-> self,
         ret   |-> slice(buf, n, r),
         panic |-> ~(full_buffer_ok(self.circ, self.size_of) /\ slice_ok(n, r))]

\* Buffer::write_buf
write_buf(self, mem) ==
    LET buf == full_buffer(self.circ, mem, self.size_of)
        n   == full_buffer_len(self.circ, self.size_of)
        r   == write_range(self)
    IN  [self  |-> self,
         ret   |-> slice(buf, n, r),
         panic |-> ~(full_buffer_ok(self.circ, self.size_of) /\ slice_ok(n, r))]

\* A wrong consume: no precondition check.
consume_unchecked(self, n) ==
    [self  |-> [self EXCEPT !.rpos = (self.rpos + n) % capacity(self),
                            !.used = self.used - n],
     panic |-> FALSE]

\* A wrong consume: rpos is not reduced modulo the capacity.
consume_no_wrap(self, n) ==
    IF n <= self.used
    THEN [self  |-> [self EXCEPT !.rpos = self.rpos + n,
                                 !.used = self.used - n],
          panic |-> FALSE]
    ELSE [self |-> self, panic |-> TRUE]

\* A wrong consume: rpos wraps one sample late.
consume_wraps_late(self, n) ==
    IF n <= self.used
    THEN [self  |-> [self EXCEPT !.rpos = (self.rpos + n) % (capacity(self) + 1),
                                 !.used = self.used - n],
          panic |-> FALSE]
    ELSE [self |-> self, panic |-> TRUE]

\* Buffer::consume
consume(self, n) ==
    IF n <= self.used
    THEN [self  |-> [self EXCEPT !.rpos = (self.rpos + n) % capacity(self),
                                 !.used = self.used - n],
          panic |-> FALSE]
    ELSE [self |-> self, panic |-> TRUE]

\* A wrong produce: no precondition check.
produce_unchecked(self, n) ==
    [self  |-> [self EXCEPT !.wpos = (self.wpos + n) % capacity(self),
                            !.used = self.used + n],
     panic |-> FALSE]

\* A wrong produce: the precondition is off by one.
produce_off_by_one(self, n) ==
    IF free(self) + 1 >= n
    THEN [self  |-> [self EXCEPT !.wpos = (self.wpos + n) % capacity(self),
                                 !.used = self.used + n],
          panic |-> FALSE]
    ELSE [self |-> self, panic |-> TRUE]

\* A wrong produce: wpos is not reduced modulo the capacity.
produce_no_wrap(self, n) ==
    IF free(self) >= n /\ write_capacity(self) >= n
    THEN [self  |-> [self EXCEPT !.wpos = self.wpos + n,
                                 !.used = self.used + n],
          panic |-> FALSE]
    ELSE [self |-> self, panic |-> TRUE]

\* A wrong produce: a full buffer makes room by dropping its oldest samples,
\* moving the reader's cursor.
produce_drops_oldest(self, n) ==
    IF free(self) >= n /\ write_capacity(self) >= n
    THEN [self  |-> [self EXCEPT !.wpos = (self.wpos + n) % capacity(self),
                                 !.used = self.used + n],
          panic |-> FALSE]
    ELSE [self  |-> [self EXCEPT !.wpos = (self.wpos + n) % capacity(self),
                                 !.rpos = (self.wpos + n) % capacity(self),
                                 !.used = capacity(self)],
          panic |-> FALSE]

\* Buffer::produce
produce(self, n) ==
    IF free(self) >= n /\ write_capacity(self) >= n
    THEN [self  |-> [self EXCEPT !.wpos = (self.wpos + n) % capacity(self),
                                 !.used = self.used + n],
          panic |-> FALSE]
    ELSE [self |-> self, panic |-> TRUE]

----------------------------------------------------------------------------
(* The calls a producer and a consumer make on one buffer.                 *)

\* The first n elements of seq (all of them when it has fewer).
Take(seq, n) == SubSeq(seq, 1, IF n <= Len(seq) THEN n ELSE Len(seq))

\* The last call: its name, its count or index argument, the value written.
Call(name, arg, val) == [name |-> name, arg |-> arg, val |-> val]

\* let mut b: Buffer<T> = Buffer::new(size)?
Created(size, page, s) ==
    /\ Buffer_new_ok(size, page)
    /\ b = Buffer_new(size, page, s)
    /\ file = tempfile(page)
    /\ inflight = <<>>
    /\ op = Call("new", size, 0)
    /\ panicked = FALSE
    /\ NoGraph
    /\ NoTypes
    /\ NoIIR
    /\ NoOS

Init == \E s \in ElemSizes : Created(SmallLen(s), SmallLen(s), s)

InitPage == \E s \in ElemSizes : Created(PageLen, PageLen, s)

\* b.write_buf()[k] = v
Write(k, v) ==
    LET w == write_buf(b, file)
    IN  /\ ~panicked
        /\ ~w.panic
        /\ k < Len(w.ret)
        /\ b' = w.self
        /\ file' = store(b.circ, file, write_range(b)[1] + k, b.size_of, v)
        /\ op' = Call("write", write_range(b)[1] + k, v)
        /\ UNCHANGED <<inflight, panicked>>
        /\ UNCHANGED <<gvars, ovars>>

\* b.produce(n)
Produce(n) ==
    LET r == produce(b, n)
    IN  /\ ~panicked
        /\ b' = r.self
        /\ panicked' = r.panic
        /\ inflight' = IF r.panic THEN inflight
                       ELSE inflight \o Take(write_buf(b, file).ret, n)
        /\ op' = Call("produce", n, 0)
        /\ UNCHANGED file
        /\ UNCHANGED <<gvars, ovars>>

\* b.consume(n)
Consume(n) ==
    LET r == consume(b, n)
    IN  /\ ~panicked
        /\ b' = r.self
        /\ panicked' = r.panic
        /\ inflight' = IF r.panic THEN inflight
                       ELSE SubSeq(inflight, n + 1, Len(inflight))
        /\ op' = Call("consume", n, 0)
        /\ UNCHANGED file
        /\ UNCHANGED <<gvars, ovars>>

\* b.read_buf()
ReadBuf ==
    LET r == read_buf(b, file)
    IN  /\ ~panicked
        /\ b' = r.self
        /\ panicked' = r.panic
        /\ op' = Call("read_buf", 0, 0)
        /\ UNCHANGED <<file, inflight>>
        /\ UNCHANGED <<gvars, ovars>>

\* b.write_buf()
WriteBuf ==
    LET w == write_buf(b, file)
    IN  /\ ~panicked
        /\ b' = w.self
        /\ panicked' = w.panic
        /\ op' = Call("write_buf", 0, 0)
        /\ UNCHANGED <<file, inflight>>
        /\ UNCHANGED <<gvars, ovars>>

\* Batch sizes tried, one beyond the capacity included.
Batches == 0..(capacity(b) + 1)

Next ==
    \/ \E k \in 0..(capacity(b) - 1) : \E v \in Samples(b.size_of) : Write(k, v)
    \/ \E n \in Batches : Produce(n)
    \/ \E n \in Batches : Consume(n)
    \/ ReadBuf
    \/ WriteBuf

Spec == Init /\ [][Next]_vars

\* Batch sizes on the real page, one beyond the capacity included.
BatchUnit == capacity(b) \div (2 ^ BatchLog)

PageBatches == {k * BatchUnit : k \in 0..(2 ^ BatchLog + 1)}

NextPage ==
    \/ \E n \in PageBatches : Produce(n)
    \/ \E n \in PageBatches : Consume(n)
    \/ ReadBuf
    \/ WriteBuf

SpecPage == InitPage /\ [][NextPage]_vars

----------------------------------------------------------------------------
(* Properties of the buffer.                                               *)

\* The read slice and the write slice a caller would get in this state.
ReadSlice == read_buf(b, file).ret

WriteSlice == write_buf(b, file).ret

\* A produce or consume that passed its assertions has just run.
Committed(name) == op.name = name /\ ~panicked

\* The occupied part of the ring reaches past the end of the page.
Straddles == b.rpos + b.used > capacity(b)

\* C1: in every reachable state 0 <= used <= L, 0 <= free <= L and
\* used + free = L, with L the capacity in samples.
C1_UsedFreeInRange ==
    LET L == capacity(b)
    IN  /\ 0 <= b.used /\ b.used <= L
        /\ 0 <= free(b) /\ free(b) <= L
        /\ b.used + free(b) = L

\* C1 witness: a partly filled buffer after a consume that followed a wrap.
C1_Witness ==
    /\ Committed("consume")
    /\ op.arg > 0
    /\ b.used > 0 /\ free(b) > 0
    /\ b.wpos < b.rpos

\* C2: the samples the consumer reads next are exactly the samples committed
\* by produce and not yet consumed, in commit order; each consume(m) removes
\* the first m of them, so what the consumer observes over a run is a prefix
\* of what the producer committed, without loss, duplication or reordering,
\* also when the batch straddles the wrap point.
C2_Fifo == ReadSlice = inflight

\* C2 witness: a consumer has consumed, and the batch it reads next straddles
\* the wrap point and holds different values on both sides of it.
C2_Witness ==
    /\ Committed("consume")
    /\ op.arg > 0
    /\ Straddles
    /\ inflight[1] # 0
    /\ inflight[Len(inflight)] # inflight[1]

\* C3: read_buf returns exactly `used` samples and write_buf exactly `free`
\* samples, each one contiguous index range [start, end) with
\* end <= start + L inside the doubly mapped region [0, 2L), every byte of
\* which is mapped: slicing never goes out of bounds.
C3_SlicesInBounds ==
    LET L  == capacity(b)
        rr == read_range(b)
        wr == write_range(b)
        inside(r) == /\ 0 <= r[1] /\ r[1] <= r[2]
                     /\ r[2] <= r[1] + L
                     /\ r[2] <= 2 * L
                     /\ 2 * L = full_buffer_len(b.circ, b.size_of)
                     /\ 2 * L = Len(full_buffer(b.circ, file, b.size_of))
                     /\ \A i \in (r[1] * b.size_of)..(r[2] * b.size_of - 1) :
                            b.circ.map[i] # Unmapped
    IN  /\ ~read_buf(b, file).panic
        /\ ~write_buf(b, file).panic
        /\ Len(ReadSlice) = b.used
        /\ Len(WriteSlice) = free(b)
        /\ rr[2] - rr[1] = b.used
        /\ wr[2] - wr[1] = free(b)
        /\ inside(rr)
        /\ inside(wr)

\* C3 witness: both slices are non-empty and the write slice reaches into the
\* upper mapping.
C3_Witness ==
    /\ Committed("produce")
    /\ b.used > 0 /\ free(b) > 0
    /\ write_range(b)[2] > capacity(b)
    /\ Len(WriteSlice) = free(b)

\* C4: wpos = (rpos + used) mod L, and the readable region [rpos, rpos+used)
\* and the writable region [wpos, wpos+free) do not overlap modulo L.
C4_CursorsAgree ==
    LET L == capacity(b)
        readable == {(b.rpos + i) % L : i \in 0..(b.used - 1)}
        writable == {(b.wpos + i) % L : i \in 0..(free(b) - 1)}
    IN  /\ b.wpos = (b.rpos + b.used) % L
        /\ readable \cap writable = {}

\* C4 witness: after a produce that wrapped wpos, both regions are non-empty.
C4_Witness ==
    /\ Committed("produce")
    /\ op.arg > 0
    /\ b.wpos < b.rpos
    /\ b.used > 0 /\ free(b) > 0

\* C5: for every i in [0, L) the virtual bytes i and i+L are the same
\* physical byte: both are mapped to the same file offset, and a sample
\* written through either index is read back identically through the other.
C5_Mirror ==
    LET L == Circ_len(b.circ)
        s == b.size_of
    IN  /\ \A i \in 0..(L - 1) :
            /\ b.circ.map[i] # Unmapped
            /\ b.circ.map[i] = b.circ.map[i + L]
            /\ b.circ.map[i] \in DOMAIN file
        /\ \A j \in 0..(capacity(b) - 1) : \A v \in Samples(s) :
            /\ from_le_bytes(b.circ, store(b.circ, file, j, s, v), (j + capacity(b)) * s, s) = v
            /\ from_le_bytes(b.circ, store(b.circ, file, j + capacity(b), s, v), j * s, s) = v

\* C5 witness: the last write went through an index of the upper mapping and
\* its value is read back through the lower one.
C5_Witness ==
    /\ op.name = "write"
    /\ op.arg >= capacity(b)
    /\ op.val # 0
    /\ from_le_bytes(b.circ, file, (op.arg - capacity(b)) * b.size_of, b.size_of) = op.val

\* C6: producing exactly L samples into an empty buffer succeeds and gives a
\* read slice of length L and a write slice of length 0; consuming those L
\* samples succeeds and gives a read slice of length 0 and a write slice of
\* length L.  In both states wpos = rpos: the full state is told from the
\* empty one.
C6_ExactFill ==
    [][LET L == capacity(b)
       IN  /\ (b.used = 0 /\ ~panicked /\ op' = Call("produce", L, 0)) =>
                /\ ~panicked'
                /\ Len(read_buf(b', file').ret) = L
                /\ Len(write_buf(b', file').ret) = 0
                /\ b'.wpos = b'.rpos
           /\ (b.used = L /\ ~panicked /\ op' = Call("consume", L, 0)) =>
                /\ ~panicked'
                /\ Len(read_buf(b', file').ret) = 0
                /\ Len(write_buf(b', file').ret) = L
                /\ b'.wpos = b'.rpos
      ]_vars

\* C6 witness: a full buffer of 4096 bytes whose fill started inside the
\* page has been consumed in one call and is empty again.
C6_Witness ==
    /\ Committed("consume")
    /\ op.arg = capacity(b)
    /\ capacity(b) = PageLen
    /\ b.rpos > 0
    /\ Len(ReadSlice) = 0
    /\ Len(WriteSlice) = PageLen

\* C7: a buffer of 4096 bytes has a capacity of 4096 / size_of::<T>()
\* samples (4096 for u8, 1024 for a 4-byte float); when newly created it is
\* empty and its write slice has that length; rpos, wpos and used count
\* samples, so they never exceed the capacity in samples.
C7_NewBuffer ==
    /\ capacity(b) = PageLen \div b.size_of
    /\ b.size_of = 1 => capacity(b) = 4096
    /\ b.size_of = 4 => capacity(b) = 1024
    /\ b.rpos < capacity(b) /\ b.wpos < capacity(b) /\ b.used <= capacity(b)
    /\ op.name = "new" =>
        /\ b.used = 0 /\ b.rpos = 0 /\ b.wpos = 0
        /\ ReadSlice = <<>>
        /\ Len(WriteSlice) = PageLen \div b.size_of

\* C7 witness: a newly created buffer of 4-byte samples offers 1024 of them.
C7_Witness ==
    /\ op = Call("new", PageLen, 0)
    /\ b.size_of = 4
    /\ b.used = 0
    /\ Len(WriteSlice) = 1024

\* C8: a call of read_buf or write_buf leaves rpos, wpos and used unchanged
\* and does not panic, and the next read_buf and write_buf return the same
\* samples as before the call.
C8_NonDestructive ==
    [][(op'.name \in {"read_buf", "write_buf"} /\ ~panicked) =>
            /\ ~panicked'
            /\ b'.rpos = b.rpos /\ b'.wpos = b.wpos /\ b'.used = b.used
            /\ read_buf(b', file').ret = read_buf(b, file).ret
            /\ write_buf(b', file').ret = write_buf(b, file).ret
      ]_vars

\* C8 witness: read_buf has returned a non-empty slice that straddles the
\* wrap point, and the samples are still there.
C8_Witness ==
    /\ Committed("read_buf")
    /\ Straddles
    /\ ReadSlice[1] # 0
    /\ ReadSlice = inflight

\* C9: consume(n) with n <= used advances rpos by n modulo L and decreases
\* used by n, leaving wpos alone; with n > used the call panics and changes
\* nothing, so used never underflows.
C9_Consume ==
    [][(op'.name = "consume" /\ ~panicked) =>
            LET n == op'.arg
            IN  IF n <= b.used
                THEN /\ ~panicked'
                     /\ b'.rpos = (b.rpos + n) % capacity(b)
                     /\ b'.used = b.used - n
                     /\ b'.used >= 0
                     /\ b'.wpos = b.wpos
                ELSE /\ panicked'
                     /\ b' = b
      ]_vars

\* C9 witness: a consume of more than the samples in use has panicked on a
\* buffer that held some.
C9_Witness ==
    /\ panicked
    /\ op.name = "consume"
    /\ b.used > 0
    /\ op.arg > b.used

\* C10: produce(n) with n <= free advances wpos by n modulo L and increases
\* used by n, leaving rpos alone; with n > free the call panics and changes
\* nothing, so used never exceeds L.
C10_Produce ==
    [][(op'.name = "produce" /\ ~panicked) =>
            LET n == op'.arg
            IN  IF n <= free(b)
                THEN /\ ~panicked'
                     /\ b'.wpos = (b.wpos + n) % capacity(b)
                     /\ b'.used = b.used + n
                     /\ b'.used <= capacity(b)
                     /\ b'.rpos = b.rpos
                ELSE /\ panicked'
                     /\ b' = b
                     /\ inflight' = inflight
      ]_vars

\* C10 witness: a produce of more than the free space has panicked on a
\* buffer that holds unread samples and still has room.
C10_Witness ==
    /\ panicked
    /\ op.name = "produce"
    /\ b.used > 0
    /\ free(b) > 0
    /\ op.arg > free(b)

(***************************************************************************)
(* Streams (specification 4.2).  A stream is a bounded queue of samples:   *)
(* data, oldest first, and cap, the capacity of its buffer in samples.     *)
(***************************************************************************)

\* The largest stream capacity, in samples.
StreamCap == 2

\* The longest sequence the source emits.
MaxItems == 3

Stream_new(cap) == [data |-> <<>>, cap |-> cap]

\* Stream::iter(): the readable samples, oldest first.
Stream_iter(st) == st.data

Stream_free(st) == st.cap - Len(st.data)

\* Stream::write(iter): appends as many samples of the iterator as fit and
\* returns the count written.
Stream_write(st, items) ==
    LET n == IF Len(items) <= Stream_free(st) THEN Len(items) ELSE Stream_free(st)
    IN  [self |-> [st EXCEPT !.data = @ \o Take(items, n)], ret |-> n]

\* Stream::clear(): consume all that is readable.
Stream_clear(st) == [st EXCEPT !.data = <<>>]

(***************************************************************************)
(* Blocks.  Each work() is given the block's state and its streams and     *)
(* yields them after the call, what it printed, and the set of values it   *)
(* may return ("Ok", "EOF" or "Err").                                      *)
(***************************************************************************)

\* The per-sample function the block supplies; here that of an AddConst,
\* o[n] = I[n] + 10.
process_one(x) == x + 10

\* The mapped samples in reverse order.
MapSeq_reversed(seq) == [k \in 1..Len(seq) |-> process_one(seq[Len(seq) + 1 - k])]

\* The iterator the map block hands to write(): process_one of each
\* readable sample, oldest first.
MapSeq(seq) == [k \in 1..Len(seq) |-> process_one(seq[k])]

\* The source: emits what is left of xs, as much as its output takes.  It
\* returns EOF when called with nothing left, and may return EOF already
\* from the call that wrote its last samples.
source_work(self, w) ==
    IF self.rest = <<>>
    THEN [self |-> self, w |-> w, rets |-> {"EOF"}]
    ELSE LET wr == Stream_write(w, self.rest)
         IN  [self |-> [self EXCEPT !.rest = SubSeq(@, wr.ret + 1, Len(@))],
              w |-> wr.self,
              rets |-> IF wr.ret = Len(self.rest) THEN {"Ok", "EOF"} ELSE {"Ok"}]

\* map_block_macro_v2 / map_block_convert_macro, work(): writes the mapped
\* input to the output, drops the count write() returns, clears the input.
map_work(r, w) ==
    LET wr == Stream_write(w, MapSeq(Stream_iter(r)))
    IN  [r |-> Stream_clear(r), w |-> wr.self, rets |-> {"Ok"}]

\* DebugSink::work(): prints every readable sample, clears the input.
sink_work(r) ==
    [r |-> Stream_clear(r), printed |-> Stream_iter(r), rets |-> {"Ok"}]

\* Some other sink: takes its input as DebugSink does; Block::work lets it
\* return Ok, EOF or an error.
any_work(r) ==
    [r |-> Stream_clear(r), printed |-> Stream_iter(r), rets |-> {"Ok", "EOF", "Err"}]

\* work() of block n on the graph's state: the source's state, the streams
\* and the sink's printout after the call, what the map block took and
\* wrote, and the values the call may return.
block_work(n) ==
    CASE blocks[n] = "Source" ->
            LET r == source_work(src, streams[1])
            IN  [src |-> r.self, streams |-> [streams EXCEPT ![1] = r.w],
                 printed |-> <<>>, took |-> <<>>, wrote |-> <<>>, rets |-> r.rets]
      [] blocks[n] = "Map" ->
            LET r == map_work(streams[1], streams[2])
            IN  [src |-> src, streams |-> <<r.r, r.w>>, printed |-> <<>>,
                 took |-> SubSeq(streams[1].data, 1,
                                 Len(streams[1].data) - Len(r.r.data)),
                 wrote |-> SubSeq(r.w.data, Len(streams[2].data) + 1, Len(r.w.data)),
                 rets |-> r.rets]
      [] blocks[n] = "DebugSink" ->
            LET r == sink_work(streams[2])
            IN  [src |-> src, streams |-> [streams EXCEPT ![2] = r.r],
                 printed |-> r.printed, took |-> <<>>, wrote |-> <<>>, rets |-> r.rets]
      [] OTHER ->
            LET r == any_work(streams[2])
            IN  [src |-> src, streams |-> [streams EXCEPT ![2] = r.r],
                 printed |-> r.printed, took |-> <<>>, wrote |-> <<>>, rets |-> r.rets]

\* What the blocks have done so far: the samples the map block removed from
\* its input and those it wrote; the last work() call and its return; idle,
\* the block slots Graph::run has visited since the graph was drained.
NoHist ==
    [map_in |-> <<>>, map_out |-> <<>>, last |-> [n |-> 0, ret |-> "none"],
     idle |-> 0]

\* Block n has worked and returned ret.
Worked(n, ret) ==
    LET r == block_work(n)
    IN  /\ ret \in r.rets
        /\ src' = r.src
        /\ streams' = r.streams
        /\ seen' = seen \o r.printed
        /\ hist' = [hist EXCEPT !.map_in = @ \o r.took,
                                !.map_out = @ \o r.wrote,
                                !.last = [n |-> n, ret |-> ret]]

\* The source emits 1, 2, ..., n.
Emits(n) == [xs |-> [k \in 1..n |-> k], rest |-> [k \in 1..n |-> k]]

\* The orders in which the three blocks may have been added to the graph.
Orders(sink) ==
    {<<x, y, z>> : x, y, z \in {"Source", "Map", sink}} \ 
        {o \in {<<x, y, z>> : x, y, z \in {"Source", "Map", sink}} :
            o[1] = o[2] \/ o[1] = o[3] \/ o[2] = o[3]}

\* Source -> Map -> sink, the sink being DebugSink or some other block.
Chain(sink, n, c1, c2) ==
    /\ blocks \in Orders(sink)
    /\ streams = <<Stream_new(c1), Stream_new(c2)>>
    /\ src = Emits(n)
    /\ eof = <<FALSE, FALSE, FALSE>>
    /\ seen = <<>>
    /\ hist = NoHist

(***************************************************************************)
(* SpecMap: the three blocks work in any order, on streams of any          *)
(* capacities up to StreamCap.                                             *)
(***************************************************************************)
InitMap ==
    /\ NoBuffer
    /\ NoTypes
    /\ NoIIR
    /\ NoOS
    /\ \E n \in 0..MaxItems : \E c1, c2 \in 1..StreamCap : Chain("DebugSink", n, c1, c2)
    /\ pc = "free"
    /\ cancel = "none"
    /\ result = "none"

Fire(n) ==
    /\ pc = "free"
    /\ \E ret \in {"Ok", "EOF"} : Worked(n, ret)
    /\ UNCHANGED <<blocks, eof, pc, cancel, result>>
    /\ UNCHANGED <<bvars, ovars>>

NextMap == \E n \in 1..Len(blocks) : Fire(n)

SpecMap == InitMap /\ [][NextMap]_vars

\* C11: every work() of the map helpers consumes exactly what it processed
\* into its output: whatever the input length and the output's free space,
\* the samples written are process_one of the samples removed from the
\* input, in order, so none is dropped without its mapped value written.
C11_MapConsumesWhatItWrote == hist.map_out = MapSeq(hist.map_in)

(***************************************************************************)
(* Graph::run and CancelToken (specification 4.3, 4.4, 7).  The scheduler  *)
(* visits the blocks round-robin in the order they were added.  At each    *)
(* block it first polls the token, then skips a block that has returned    *)
(* EOF, then calls work().  After each pass it returns if every source has *)
(* returned EOF and every stream is empty.                                 *)
(*                                                                         *)
(* pc is [at, n]: "idle" before run(), "check" at the checkpoint before    *)
(* block n, "work" while block n's work() is in flight, "end" after a      *)
(* pass, "done" once run() has returned.                                   *)
(***************************************************************************)

\* The number of cancel() calls followed.
MaxCancels == 2

At(at, n) == [at |-> at, n |-> n]

\* What run() returned: Ok(()) after the graph drained or was cancelled,
\* or the error of block n.
Returned(status, why, n) == [status |-> status, why |-> why, block |-> n]

Running == Returned("running", "none", 0)

\* A cancel() that flips the flag.
CancelToken_cancel_flip(tok) == ~tok

\* CancelToken::cancel(): sets the shared flag.
CancelToken_cancel(tok) == TRUE

\* A poll that never sees the flag.
CancelToken_is_canceled_never(tok) == FALSE

\* CancelToken::is_canceled(): the graph's poll of the flag.
CancelToken_is_canceled(tok) == tok

Sources == {n \in 1..Len(blocks) : blocks[n] = "Source"}

\* Every source has returned EOF and every stream is empty.
Drained ==
    /\ \A n \in Sources : eof[n]
    /\ \A k \in 1..Len(streams) : streams[k].data = <<>>

\* Normal termination only once every block has returned EOF.
finished_every_block(e, sts) ==
    /\ \A n \in 1..Len(blocks) : e[n]
    /\ \A k \in 1..Len(sts) : sts[k].data = <<>>

\* Normal termination as soon as all sources have returned EOF.
finished_sources_only(e, sts) == \A n \in Sources : e[n]

\* The graph terminates normally: all sources EOF, all data drained.
finished(e, sts) ==
    /\ \A n \in Sources : e[n]
    /\ \A k \in 1..Len(sts) : sts[k].data = <<>>

\* The scheduler skips no block.
skips_none(e, n) == FALSE

\* The scheduler skips a block that has returned EOF.
skips(e, n) == e[n]

\* EOF taken for a failure as well.
fatal_or_eof(ret) == ret \in {"Err", "EOF"}

\* work() returned Err(e): a fatal error, which ends the run.
fatal(ret) == ret = "Err"

\* The checkpoint after block n.
next_block(n) == IF n < Len(blocks) THEN At("check", n + 1) ELSE At("end", 0)

\* g.run() is called.
Run ==
    /\ pc.at = "idle"
    /\ pc' = At("check", 1)
    /\ UNCHANGED <<blocks, streams, src, eof, cancel, result, seen, hist>>
    /\ UNCHANGED <<bvars, ovars>>

\* The checkpoint before block pc.n: return if cancelled, skip the block if
\* it has returned EOF, else call its work().
Check ==
    /\ pc.at = "check"
    /\ IF CancelToken_is_canceled(cancel.set)
       THEN /\ result' = Returned("Ok", "cancelled", 0)
            /\ pc' = At("done", 0)
            /\ UNCHANGED hist
       ELSE /\ pc' = IF skips(eof, pc.n) THEN next_block(pc.n) ELSE At("work", pc.n)
            /\ hist' = [hist EXCEPT !.idle =
                            IF Drained
                            THEN (IF @ < Len(blocks) + 1 THEN @ + 1 ELSE @)
                            ELSE 0]
            /\ UNCHANGED result
    /\ UNCHANGED <<blocks, streams, src, eof, cancel, seen>>
    /\ UNCHANGED <<bvars, ovars>>

\* The work() of block pc.n returns: Ok, go on; EOF, go on and call it no
\* more; an error, return it.
Work ==
    /\ pc.at = "work"
    /\ \E ret \in {"Ok", "EOF", "Err"} :
        /\ Worked(pc.n, ret)
        /\ eof' = IF ret = "EOF" THEN [eof EXCEPT ![pc.n] = TRUE] ELSE eof
        /\ result' = IF fatal(ret) THEN Returned("Err", "work", pc.n) ELSE result
        /\ pc' = IF fatal(ret) THEN At("done", 0) ELSE next_block(pc.n)
    /\ UNCHANGED <<blocks, cancel>>
    /\ UNCHANGED <<bvars, ovars>>

\* A pass over the blocks has ended.
EndOfPass ==
    /\ pc.at = "end"
    /\ IF finished(eof, streams)
       THEN /\ result' = Returned("Ok", "drained", 0)
            /\ pc' = At("done", 0)
       ELSE /\ pc' = At("check", 1)
            /\ UNCHANGED result
    /\ UNCHANGED <<blocks, streams, src, eof, cancel, seen, hist>>
    /\ UNCHANGED <<bvars, ovars>>

\* cancel.cancel() is called, from the ctrlc handler's thread.
Cancel ==
    /\ cancel.calls < MaxCancels
    /\ cancel' = [set |-> CancelToken_cancel(cancel.set),
                   calls |-> cancel.calls + 1,
                   at |-> IF cancel.calls = 0 THEN pc.at ELSE cancel.at]
    /\ UNCHANGED <<blocks, streams, src, eof, pc, result, seen, hist>>
    /\ UNCHANGED <<bvars, ovars>>

\* A graph of Source -> Map -> sink over streams of one capacity, not yet run.
Built(sink) ==
    /\ NoBuffer
    /\ NoTypes
    /\ NoIIR
    /\ NoOS
    /\ \E n \in 0..MaxItems : \E c \in 1..StreamCap : Chain(sink, n, c, c)
    /\ pc = At("idle", 0)
    /\ cancel = [set |-> FALSE, calls |-> 0, at |-> "none"]
    /\ result = Running

InitGraph == Built("DebugSink")

NextGraph ==
    \/ Run
    \/ Check
    \/ Work
    \/ EndOfPass
    \/ Cancel

\* SpecGraph: Source -> Map -> DebugSink under Graph::run.
SpecGraph == InitGraph /\ [][NextGraph]_vars

\* The runner's thread keeps running; nothing obliges anyone to cancel.
NextRun ==
    \/ Run
    \/ Check
    \/ Work
    \/ EndOfPass

FairGraph == SpecGraph /\ WF_vars(NextRun)

\* SpecAny: the sink is some other block, whose work() may return Ok, EOF
\* or an error.
InitAny == Built("Any")

SpecAny == InitAny /\ [][NextGraph]_vars

FairAny == SpecAny /\ WF_vars(NextRun)

(***************************************************************************)
(* Properties of blocks under Graph::run.                                  *)
(***************************************************************************)

IsPrefix(p, q) == Len(p) <= Len(q) /\ p = SubSeq(q, 1, Len(p))

\* C12: in the chain Source -> Map(f) -> Sink, with Source emitting
\* x_0..x_{n-1} and then EOF, Sink observes f(x_0)..f(x_{n-1}) in that
\* order (a prefix of it at any moment, all of it once the graph has
\* drained), and then Graph::run terminates: unless it is cancelled first,
\* the run eventually returns for having drained.
C12_ChainDelivers ==
    /\ [](IsPrefix(seen, [k \in 1..Len(src.xs) |-> process_one(src.xs[k])]))
    /\ [](result.why = "drained" =>
            seen = [k \in 1..Len(src.xs) |-> process_one(src.xs[k])])
    /\ <>(cancel.set \/ result.why = "drained")

\* C12 witness: the run has returned for having drained, after the sink saw
\* all of a sequence too long for one pass through the streams.
C12_Witness ==
    /\ result = Returned("Ok", "drained", 0)
    /\ ~cancel.set
    /\ Len(src.xs) = MaxItems
    /\ Len(src.xs) > streams[1].cap
    /\ Len(seen) = MaxItems
    /\ seen[1] = process_one(1)

SourcesEof == \A n \in Sources : eof[n]

\* Some stream still holds samples.
Buffered == \E k \in 1..Len(streams) : streams[k].data # <<>>

\* Every sample the source has emitted is in a stream or has reached the
\* sink, mapped once the map block has passed it on.
Conserved ==
    [k \in 1..Len(src.xs) |-> process_one(src.xs[k])] =
        seen \o streams[2].data
             \o [k \in 1..Len(streams[1].data) |-> process_one(streams[1].data[k])]
             \o [k \in 1..Len(src.rest) |-> process_one(src.rest[k])]

\* C14: samples buffered downstream of a block that returned EOF are not
\* lost.  Every sample is in a stream or at the sink; a pass that ends with
\* the source at EOF and samples still buffered is followed by another pass
\* and not by the run's return; a block downstream that has not returned
\* EOF is still called; the run returns for having drained only with every
\* stream empty; and, unless the run is cancelled, the buffered samples do
\* drain.
C14_DrainsDownstream ==
    /\ [](Conserved)
    /\ [](result.why = "drained" => ~Buffered)
    /\ [][(SourcesEof /\ Buffered /\ pc' # pc) =>
            /\ (pc.at = "end" => pc' = At("check", 1) /\ result' = Running)
            /\ (pc.at = "check" /\ ~cancel.set /\ ~eof[pc.n] => pc' = At("work", pc.n))
         ]_vars
    /\ ((SourcesEof /\ Buffered) ~> (cancel.set \/ ~Buffered))

\* C14 witness: a pass has ended with the source at EOF and samples still
\* in the stream into the sink, none of which the sink has seen yet.
C14_Witness ==
    /\ SourcesEof
    /\ streams[2].data # <<>>
    /\ pc = At("end", 0)
    /\ result = Running
    /\ ~cancel.set
    /\ Len(seen) + Len(streams[2].data) = Len(src.xs)

\* C15: once a block's work() has returned EOF the scheduler never calls
\* that block's work() again in the run, while a block that returned Ok
\* stays eligible.  A work() in flight is that of a block that has not
\* returned EOF; its return marks the block exactly when it is EOF; a mark
\* is never taken back; and an uncancelled checkpoint calls the block's
\* work() exactly when the block is unmarked.
C15_EofNotCalledAgain ==
    [][/\ (pc.at = "work" /\ pc' # pc) =>
            /\ ~eof[pc.n]
            /\ hist'.last.n = pc.n
            /\ eof'[pc.n] = (hist'.last.ret = "EOF")
       /\ \A n \in 1..Len(blocks) : eof[n] => eof'[n]
       /\ (pc.at = "check" /\ pc' # pc /\ ~cancel.set) =>
            (pc'.at = "work") = ~eof[pc.n]
      ]_vars

\* C15 witness: the sink has returned EOF and is skipped, while the map
\* block, which has worked before and returned Ok, is being called again.
C15_Witness ==
    /\ \E n \in 1..Len(blocks) : blocks[n] = "Any" /\ eof[n]
    /\ pc.at = "work"
    /\ blocks[pc.n] = "Map"
    /\ hist.map_in # <<>>
    /\ streams[1].data # <<>>

C17_CancelIdempotent ==
    /\ [](cancel.calls > 0 => cancel.set)
    /\ [][/\ cancel.calls > 0 => (pc'.at = "work" => pc.at = "work")
          /\ (cancel.calls > 0 /\ cancel'.calls > cancel.calls) =>
                /\ cancel'.set = cancel.set
                /\ cancel'.at = cancel.at
                /\ UNCHANGED <<blocks, streams, src, eof, pc, result, seen, hist>>
         ]_vars
    /\ (cancel.calls > 0 ~> (pc.at = "done" /\ result.status = "Ok"))

\* C17 witness: cancel() was called before run() and again later; the run
\* has returned success without having called any block.
C17_Witness ==
    /\ cancel.calls = MaxCancels
    /\ cancel.at = "idle"
    /\ result = Returned("Ok", "cancelled", 0)
    /\ hist.last.n = 0
    /\ seen = <<>>
    /\ src.rest # <<>>

\* C18: if a block's work() returns a fatal error, Graph::run calls no
\* further block and returns that error, naming the block; it returns
\* success only when the graph drained (all sources EOF, all streams
\* empty) or was cancelled; and EOF is never reported as an error: the run
\* has returned an error exactly when the last work() returned one.
C18_ErrorsSurface ==
    /\ [][/\ (pc.at = "work" /\ pc' # pc /\ hist'.last.ret = "Err") =>
                /\ result' = Returned("Err", "work", pc.n)
                /\ pc' = At("done", 0)
          /\ (pc.at = "work" /\ pc' # pc /\ hist'.last.ret # "Err") =>
                /\ result' = Running
                /\ pc' = next_block(pc.n)
          /\ result.status # "running" =>
                UNCHANGED <<blocks, streams, src, eof, pc, result, seen, hist>>
         ]_vars
    /\ [](result.status = "Ok" =>
            \/ result.why = "cancelled" /\ cancel.set
            \/ result.why = "drained" /\ Drained)
    /\ [](result.status = "Err" =>
            /\ result.block = hist.last.n
            /\ result.block \in 1..Len(blocks))
    /\ []((result.status = "Err") = (hist.last.ret = "Err"))

\* C18 witness: the source has returned EOF, samples are still buffered,
\* and the run has returned the error of the sink's work().
C18_Witness ==
    /\ result.status = "Err"
    /\ blocks[result.block] = "Any"
    /\ SourcesEof
    /\ Buffered
    /\ pc = At("done", 0)

(***************************************************************************)
(* get_input and get_output (src/block.rs).  A block's streams are held as *)
(* StreamType values, each the variant of its element type around the      *)
(* typed stream; get_input::<T>(r, n) converts entry n into a Streamp<T>.  *)
(***************************************************************************)

\* The element types of streams.
Types == {"Float", "Complex", "U8"}

\* The most streams a block has on either side.
MaxStreams == 2

\* A StreamType value: the variant's type and the stream it wraps.
StreamType(t, id) == [variant |-> t, inner |-> id]

\* A Streamp<T>: a typed handle on a stream.
Streamp(t, id) == [elem |-> t, inner |-> id]

\* From<StreamType> for Streamp<T>: the wrapped stream if the variant is
\* T's, else a panic.
into(st, t) ==
    IF st.variant = t
    THEN [panic |-> FALSE, ret |-> Streamp(t, st.inner)]
    ELSE [panic |-> TRUE, ret |-> Streamp("none", 0)]

\* A cast that takes the stream under whatever type is asked for.
get_input_unchecked(r, n, t) == [panic |-> FALSE, ret |-> Streamp(t, r[n + 1].inner)]

\* get_input::<T>(r, n): r.get(n).into().
get_input(r, n, t) == into(r[n + 1], t)

\* get_output::<T>(w, n): w.get(n).into().
get_output(w, n, t) == into(w[n + 1], t)

\* Streams of the given types, numbered from base.
StreamsOf(ts, base) == [k \in 1..Len(ts) |-> StreamType(ts[k], base + k)]

TypeLists == UNION {[1..len -> Types] : len \in 1..MaxStreams}

InitTypes ==
    /\ NoBuffer
    /\ NoGraph
    /\ NoIIR
    /\ NoOS
    /\ \E rt, wt \in TypeLists :
        io = [r |-> StreamsOf(rt, 0), w |-> StreamsOf(wt, MaxStreams),
              call |-> [fn |-> "none", n |-> 0, t |-> "none"],
              ret |-> Streamp("none", 0), panic |-> FALSE]

\* get_input::<t>(r, n) is called.
GetInput(n, t) ==
    /\ ~io.panic
    /\ n < Len(io.r)
    /\ LET got == get_input(io.r, n, t)
       IN  io' = [io EXCEPT !.call = [fn |-> "get_input", n |-> n, t |-> t],
                            !.ret = got.ret, !.panic = got.panic]
    /\ UNCHANGED <<bvars, gvars, iir, os>>

\* get_output::<t>(w, n) is called.
GetOutput(n, t) ==
    /\ ~io.panic
    /\ n < Len(io.w)
    /\ LET got == get_output(io.w, n, t)
       IN  io' = [io EXCEPT !.call = [fn |-> "get_output", n |-> n, t |-> t],
                            !.ret = got.ret, !.panic = got.panic]
    /\ UNCHANGED <<bvars, gvars, iir, os>>

NextTypes ==
    \/ \E n \in 0..(MaxStreams - 1) : \E t \in Types : GetInput(n, t)
    \/ \E n \in 0..(MaxStreams - 1) : \E t \in Types : GetOutput(n, t)

SpecTypes == InitTypes /\ [][NextTypes]_vars

\* The StreamType the last call asked for.
Asked ==
    IF io.call.fn = "get_input" THEN io.r[io.call.n + 1] ELSE io.w[io.call.n + 1]

\* C19: retrieving input or output stream n as a stream of T succeeds
\* exactly when the stream's type tag is T, and then hands out that very
\* stream; when the tag differs the call panics and hands out nothing, so
\* no stream is ever seen under an element type other than its own.
C19_TypedRetrieval ==
    io.call.fn # "none" =>
        /\ io.panic = (Asked.variant # io.call.t)
        /\ ~io.panic => io.ret = Streamp(Asked.variant, Asked.inner)
        /\ io.panic => io.ret = Streamp("none", 0)

\* C19 witness: a block with an input and an output of different types
\* asked for its output under the input's type, and the call panicked.
C19_Witness ==
    /\ io.call.fn = "get_output"
    /\ io.call.t = io.r[1].variant
    /\ io.w[io.call.n + 1].variant # io.call.t
    /\ io.panic

(***************************************************************************)
(* SinglePoleIIRFilter (src/single_pole_iir_filter.rs).  A Float is        *)
(* [nan, v]: not-a-number, or the value v in tenths.                       *)
(***************************************************************************)

\* 1.0, in tenths.
One == 10

\* How far beyond [0.0, 1.0], in tenths, the alphas tried reach.
Over == 4

Float(v) == [nan |-> FALSE, v |-> v]

NaN == [nan |-> TRUE, v |-> 0]

\* a <= b on floats: false when either is not a number.
le(x, y) == ~x.nan /\ ~y.nan /\ x.v <= y.v

\* (lo..=hi).contains(&x)
contains(lo, hi, x) == le(lo, x) /\ le(x, hi)

\* x - y on floats.
sub(x, y) == IF x.nan \/ y.nan THEN NaN ELSE Float(x.v - y.v)

\* Float::default(), Tout::default()
Float_default == Float(0)

\* set_taps that takes 1.0 for out of range.
set_taps_exclusive(self, alpha) ==
    IF ~(contains(Float(0), Float(One), alpha) /\ alpha # Float(One))
    THEN [self |-> self, ret |-> "None"]
    ELSE [self |-> [self EXCEPT !.alpha = alpha,
                                !.one_minus_alpha = sub(Float(One), alpha)],
          ret |-> "Some"]

\* SinglePoleIIR::set_taps
set_taps(self, alpha) ==
    IF ~contains(Float(0), Float(One), alpha)
    THEN [self |-> self, ret |-> "None"]
    ELSE [self |-> [self EXCEPT !.alpha = alpha,
                                !.one_minus_alpha = sub(Float(One), alpha)],
          ret |-> "Some"]

\* SinglePoleIIR::new: the defaults, then set_taps(alpha)?.
SinglePoleIIR_new(alpha) ==
    LET r == [alpha |-> Float_default, one_minus_alpha |-> Float_default,
              prev_output |-> Float_default]
    IN  set_taps(r, alpha)

\* No filter: the None of an Option<SinglePoleIIRFilter>.
None == [some |-> FALSE, src |-> 0, dst |-> 0,
         iir |-> [alpha |-> NaN, one_minus_alpha |-> NaN, prev_output |-> NaN]]

\* SinglePoleIIRFilter::new(src, alpha): None if SinglePoleIIR::new is,
\* else the filter on src with a new stream as dst.
SinglePoleIIRFilter_new(source, alpha) ==
    LET i == SinglePoleIIR_new(alpha)
    IN  IF i.ret = "None"
        THEN None
        ELSE [some |-> TRUE, src |-> source, dst |-> source + 1, iir |-> i.self]

\* The alphas tried: from below 0.0 to above 1.0 in tenths, and NaN.
Alphas == {Float(v) : v \in (0 - Over)..(One + Over)} \cup {NaN}

InitIIR ==
    /\ NoBuffer
    /\ NoGraph
    /\ NoTypes
    /\ NoOS
    /\ iir = [filter |-> None, call |-> [fn |-> "none", alpha |-> NaN, ret |-> "none"]]

\* SinglePoleIIRFilter::new(src, alpha) is called.
New(alpha) ==
    /\ LET f == SinglePoleIIRFilter_new(1, alpha)
       IN  iir' = [filter |-> f,
                   call |-> [fn |-> "new", alpha |-> alpha,
                             ret |-> IF f.some THEN "Some" ELSE "None"]]
    /\ UNCHANGED <<bvars, gvars, io, os>>

\* set_taps(alpha) is called on the filter's SinglePoleIIR.
SetTaps(alpha) ==
    /\ iir.filter.some
    /\ LET st == set_taps(iir.filter.iir, alpha)
       IN  iir' = [filter |-> [iir.filter EXCEPT !.iir = st.self],
                   call |-> [fn |-> "set_taps", alpha |-> alpha, ret |-> st.ret]]
    /\ UNCHANGED <<bvars, gvars, io, os>>

NextIIR ==
    \/ \E alpha \in Alphas : New(alpha)
    \/ \E alpha \in Alphas : SetTaps(alpha)

SpecIIR == InitIIR /\ [][NextIIR]_vars

\* 0 <= alpha <= 1, both bounds included.
InUnit(alpha) == ~alpha.nan /\ 0 <= alpha.v /\ alpha.v <= One

\* C20: SinglePoleIIRFilter::new(src, alpha) succeeds exactly when
\* 0 <= alpha <= 1, both bounds included, and then yields a filter with
\* that alpha and 1 - alpha; otherwise it returns None and no filter; and
\* a set_taps(alpha) that is rejected leaves alpha and one_minus_alpha as
\* they were, while one that is accepted sets them.
C20_AlphaValidated ==
    [][/\ iir'.call.fn = "new" =>
            /\ iir'.filter.some = InUnit(iir'.call.alpha)
            /\ iir'.call.ret = (IF InUnit(iir'.call.alpha) THEN "Some" ELSE "None")
            /\ iir'.filter.some =>
                /\ iir'.filter.iir.alpha = iir'.call.alpha
                /\ iir'.filter.iir.one_minus_alpha.v = One - iir'.call.alpha.v
                /\ iir'.filter.iir.prev_output = Float(0)
            /\ ~iir'.filter.some => iir'.filter = None
       /\ iir'.call.fn = "set_taps" =>
            /\ iir'.call.ret = (IF InUnit(iir'.call.alpha) THEN "Some" ELSE "None")
            /\ iir'.call.ret = "None" => iir'.filter = iir.filter
            /\ iir'.call.ret = "Some" =>
                /\ iir'.filter.iir.alpha = iir'.call.alpha
                /\ iir'.filter.iir.one_minus_alpha.v = One - iir'.call.alpha.v
      ]_vars

\* C20 witness: a filter constructed with alpha = 1.0 has rejected
\* set_taps(1.1) and still has alpha = 1.0 and one_minus_alpha = 0.0.
C20_Witness ==
    /\ iir.call = [fn |-> "set_taps", alpha |-> Float(One + 1), ret |-> "None"]
    /\ iir.filter.some
    /\ iir.filter.iir.alpha = Float(One)
    /\ iir.filter.iir.one_minus_alpha = Float(0)

(***************************************************************************)
(* Buffer::new and Circ::new call by call (src/circular_buffer.rs), with   *)
(* the operating system free to fail any call.  Virtual memory is counted  *)
(* in pages here: pages 0 and 1 are the two halves Circ::new reserves,     *)
(* page 2 is some other place the second mapping may land at.              *)
(***************************************************************************)

\* The most buffers constructed in one run.
MaxBuffers == 3

\* The calls that may fail: tempfile(), set_len(), the first mmap(),
\* munmap(), the second mmap(), and the second mmap() landing elsewhere.
Failures == {"none", "tempfile", "set_len", "mmap", "munmap", "mmap2", "moved"}

NoPages == [p \in 0..2 |-> Unmapped]

\* What a construction leaves: the failure met, how new() ended ("Ok",
\* "Err" or "panic"), the descriptor of the tempfile, the pages mapped.
Left(failed, outcome, fd, vm) ==
    [failed |-> failed, outcome |-> outcome, fd |-> fd, vm |-> vm]

\* Circ::new with the call `fail` failing.  The tempfile f is a local: it
\* is closed when new() returns or unwinds.
Circ_new_os(fail) ==
    IF fail = "tempfile" THEN Left(fail, "Err", "none", NoPages)
    ELSE IF fail = "set_len" THEN Left(fail, "Err", "closed", NoPages)
    ELSE IF fail = "mmap" THEN Left(fail, "panic", "closed", NoPages)
    ELSE LET first == mmap(NoPages, 0, 2, 0)
         IN  IF fail = "munmap" THEN Left(fail, "panic", "closed", first)
             ELSE LET upper == munmap(first, 1, 1)
                  IN  IF fail = "mmap2" THEN Left(fail, "panic", "closed", upper)
                      ELSE IF fail = "moved"
                      THEN Left(fail, "panic", "closed", mmap(upper, 2, 1, 0))
                      ELSE Left(fail, "Ok", "closed", mmap(upper, 1, 1, 0))

\* Buffer::new(size): assert_eq!(size, 4096), then Circ::new()?.
Buffer_new_os(size, fail) ==
    IF ~Buffer_new_ok(size, PageLen)
    THEN Left("size", "panic", "none", NoPages)
    ELSE Circ_new_os(fail)

InitNew ==
    /\ NoBuffer
    /\ NoGraph
    /\ NoTypes
    /\ NoIIR
    /\ os = <<>>

\* Buffer::new(size) is called; the call `fail` of the operating system fails.
BufferNew(size, fail) ==
    /\ Len(os) < MaxBuffers
    /\ LET left == Buffer_new_os(size, fail)
       IN  os' = Append(os, [size |-> size, failed |-> left.failed,
                             outcome |-> left.outcome, alive |-> left.outcome = "Ok",
                             fd |-> left.fd, vm |-> left.vm])
    /\ UNCHANGED <<bvars, gvars, io, iir>>

\* Buffer i goes out of scope.  Neither Circ nor Buffer implements Drop, and
\* their fields own nothing the operating system knows of.
Drop(i) ==
    /\ os[i].alive
    /\ os' = [os EXCEPT ![i].alive = FALSE]
    /\ UNCHANGED <<bvars, gvars, io, iir>>

NextNew ==
    \/ \E size \in {PageLen, 2 * PageLen} : \E fail \in Failures : BufferNew(size, fail)
    \/ \E i \in 1..Len(os) : Drop(i)

SpecNew == InitNew /\ [][NextNew]_vars

\* C21: every failure while constructing a circular buffer is surfaced to
\* the caller of Circ::new / Buffer::new as a typed error result, never as an
\* abort and never ignored: a construction that met a failure returned Err.
C21_FailuresSurfaced ==
    \A i \in 1..Len(os) :
        os[i].failed \in Failures \ {"none"} => os[i].outcome = "Err"

\* C22: no OS resource outlives its buffer: whenever a buffer is not alive,
\* because it was dropped or because its construction failed part-way, none
\* of its pages is mapped and its backing file is not open.
C22_NothingOutlives ==
    \A i \in 1..Len(os) :
        ~os[i].alive =>
            /\ \A p \in DOMAIN os[i].vm : os[i].vm[p] = Unmapped
            /\ os[i].fd # "open"

----------------------------------------------------------------------------
(* The producer's and the consumer's sides of one buffer.                  *)

\* C23: produce leaves rpos alone and never decreases used, consume leaves
\* wpos alone and never increases used, and neither call changes the mapping
\* or a byte of the stored samples.
C23_DisjointCursors ==
    [][/\ op'.name = "produce" =>
            /\ b'.rpos = b.rpos
            /\ b'.used >= b.used
            /\ b'.circ = b.circ
            /\ file' = file
       /\ op'.name = "consume" =>
            /\ b'.wpos = b.wpos
            /\ b'.used <= b.used
            /\ b'.circ = b.circ
            /\ file' = file
      ]_vars

\* C23 witness: a consume has taken samples out of a buffer whose writer has
\* moved on and whose memory holds a written sample.
C23_Witness ==
    /\ ~panicked
    /\ op.name = "consume"
    /\ op.arg > 0
    /\ b.wpos > 0
    /\ b.rpos > 0
    /\ \E a \in DOMAIN file : file[a] # 0

\* The bytes of the samples in the range r of b are all mapped.
Mapped(r) ==
    \A a \in (r[1] * b.size_of)..(r[2] * b.size_of - 1) :
        /\ a \in DOMAIN b.circ.map
        /\ b.circ.map[a] # Unmapped

\* C24: however many samples have passed through, a produce within the free
\* space and a consume within the samples in use do not panic, and after
\* every produce and consume rpos and wpos are inside [0, capacity) and the
\* read and the write range lie inside the mapped buffer, wherever the wrap
\* point falls in the batch.
C24_AnyLength ==
    [][op'.name \in {"produce", "consume"} =>
            /\ (op'.name = "produce" /\ op'.arg <= free(b)) => ~panicked'
            /\ (op'.name = "consume" /\ op'.arg <= b.used) => ~panicked'
            /\ b'.rpos \in 0..(capacity(b') - 1)
            /\ b'.wpos \in 0..(capacity(b') - 1)
            /\ slice_ok(full_buffer_len(b.circ, b.size_of), read_range(b))'
            /\ slice_ok(full_buffer_len(b.circ, b.size_of), write_range(b))'
            /\ Mapped(read_range(b))'
            /\ Mapped(write_range(b))'
      ]_vars

\* C24 witness: more samples than the buffer holds have passed through, and
\* both the last batch produced and the batch still to be read lie across
\* the wrap point.
C24_Witness ==
    /\ ~panicked
    /\ op.name = "produce"
    /\ op.arg >= 2
    /\ 0 < b.wpos
    /\ b.wpos < op.arg
    /\ b.rpos > 0
    /\ read_range(b)[2] > capacity(b)

(***************************************************************************)
(* SpecFilter: Source -> SinglePoleIIRFilter -> DebugSink under            *)
(* Graph::run.  The taps are floats in tenths; samples and outputs are     *)
(* floats in units of 10^-(MaxItems+1), fine enough for every output of a  *)
(* stream of MaxItems samples to be exact.                                 *)
(***************************************************************************)

\* 1.0 as a sample.
Unit == 10 ^ (MaxItems + 1)

\* tap * x: a tap times a sample, as a sample.
mul(tap, x) == IF tap.nan \/ x.nan THEN NaN ELSE Float((tap.v * x.v) \div One)

\* x + y on floats.
add(x, y) == IF x.nan \/ y.nan THEN NaN ELSE Float(x.v + y.v)

\* A wrong filter: the output is not kept for the next sample.
filter_forgets(self, sample) ==
    LET o == add(mul(self.alpha, sample), mul(self.one_minus_alpha, self.prev_output))
    IN  [self |-> self, ret |-> o]

\* SinglePoleIIR::filter
filter(self, sample) ==
    LET o == add(mul(self.alpha, sample), mul(self.one_minus_alpha, self.prev_output))
    IN  [self |-> [self EXCEPT !.prev_output = o], ret |-> o]

\* SinglePoleIIRFilter::process_one
iir_process_one(self, a) ==
    LET r == filter(self.iir, a)
    IN  [self |-> [self EXCEPT !.iir = r.self], ret |-> r.ret]

RECURSIVE iir_map(_, _)
\* i.iter().map(|x| self.process_one(x)) pulled to the end of seq: the
\* filter afterwards and the outputs, oldest first.
iir_map(self, seq) ==
    IF seq = <<>>
    THEN [self |-> self, out |-> <<>>]
    ELSE LET one  == iir_process_one(self, Head(seq))
             rest == iir_map(one.self, Tail(seq))
         IN  [self |-> rest.self, out |-> <<one.ret>> \o rest.out]

\* map_block_macro_v2 for SinglePoleIIRFilter, work(): write() pulls the
\* mapped iterator for as many samples as fit, the count it returns is
\* dropped, the input is cleared.
iir_work(self, r, w) ==
    LET n  == IF Len(Stream_iter(r)) <= Stream_free(w)
              THEN Len(Stream_iter(r)) ELSE Stream_free(w)
        m  == iir_map(self, Take(Stream_iter(r), n))
        wr == Stream_write(w, m.out)
    IN  [self |-> m.self, r |-> Stream_clear(r), w |-> wr.self, rets |-> {"Ok"}]

\* work() of block n of the filter graph.
filter_block_work(n) ==
    CASE blocks[n] = "Source" ->
            LET r == source_work(src, streams[1])
            IN  [src |-> r.self, streams |-> [streams EXCEPT ![1] = r.w],
                 filter |-> iir.filter, printed |-> <<>>, rets |-> r.rets]
      [] blocks[n] = "IIR" ->
            LET r == iir_work(iir.filter, streams[1], streams[2])
            IN  [src |-> src, streams |-> <<r.r, r.w>>,
                 filter |-> r.self, printed |-> <<>>, rets |-> r.rets]
      [] OTHER ->
            LET r == sink_work(streams[2])
            IN  [src |-> src, streams |-> [streams EXCEPT ![2] = r.r],
                 filter |-> iir.filter, printed |-> r.printed, rets |-> r.rets]

\* The input samples tried: 0.1 and 0.2.
Inputs == {Float(Unit \div 10), Float(2 * (Unit \div 10))}

\* The alphas of the filters run: 0.0, 0.2, 0.5 and 1.0.
Taps == {Float(0), Float(2), Float(5), Float(One)}

\* The orders in which the three blocks may have been added to the graph.
FilterOrders ==
    {o \in {<<x, y, z>> : x, y, z \in {"Source", "IIR", "DebugSink"}} :
        o[1] # o[2] /\ o[1] # o[3] /\ o[2] # o[3]}

InitFilter ==
    /\ NoBuffer
    /\ NoTypes
    /\ NoOS
    /\ blocks \in FilterOrders
    /\ \E c \in 1..StreamCap : streams = <<Stream_new(c), Stream_new(c)>>
    /\ \E n \in 0..MaxItems : \E xs \in [1..n -> Inputs] : src = [xs |-> xs, rest |-> xs]
    /\ \E alpha \in Taps :
        iir = [filter |-> SinglePoleIIRFilter_new(1, alpha),
               call |-> [fn |-> "new", alpha |-> alpha, ret |-> "Some"]]
    /\ eof = <<FALSE, FALSE, FALSE>>
    /\ seen = <<>>
    /\ hist = NoHist
    /\ pc = At("idle", 0)
    /\ cancel = [set |-> FALSE, calls |-> 0, at |-> "none"]
    /\ result = Running

\* The work() of block pc.n of the filter graph returns.
WorkFilter ==
    /\ pc.at = "work"
    /\ LET r == filter_block_work(pc.n)
       IN  \E ret \in r.rets :
            /\ src' = r.src
            /\ streams' = r.streams
            /\ seen' = seen \o r.printed
            /\ iir' = [iir EXCEPT !.filter = r.filter]
            /\ hist' = [hist EXCEPT !.last = [n |-> pc.n, ret |-> ret]]
            /\ eof' = IF ret = "EOF" THEN [eof EXCEPT ![pc.n] = TRUE] ELSE eof
            /\ result' = IF fatal(ret) THEN Returned("Err", "work", pc.n) ELSE result
            /\ pc' = IF fatal(ret) THEN At("done", 0) ELSE next_block(pc.n)
    /\ UNCHANGED <<blocks, cancel>>
    /\ UNCHANGED <<bvars, io, os>>

NextFilter ==
    \/ Run
    \/ Check
    \/ WorkFilter
    \/ EndOfPass

SpecFilter == InitFilter /\ [][NextFilter]_vars

RECURSIVE Recurrence(_, _, _)
\* y_n = alpha * x_n + (1 - alpha) * y_(n-1) with y_(-1) = 0: the value of
\* y_(n-1) for the samples xs, n counted from 1, alpha in tenths.
Recurrence(alpha, xs, n) ==
    IF n = 0 THEN 0
    ELSE (alpha * xs[n].v + (One - alpha) * Recurrence(alpha, xs, n - 1)) \div One

\* C25: whatever the stream capacity, and so however the input is split
\* over work() calls, the sink sees y_n = alpha * x_n + (1 - alpha) * y_(n-1)
\* with y_(-1) = 0 for the samples x the source emits: a prefix of it while
\* the graph runs, all of it once run() has returned.
C25_Recurrence ==
    LET alpha == iir.call.alpha.v
        ys    == [n \in 1..Len(src.xs) |-> Float(Recurrence(alpha, src.xs, n))]
    IN  /\ IsPrefix(seen, ys)
        /\ result.status = "Ok" => seen = ys
        /\ iir.filter.iir.alpha = iir.call.alpha

\* C25 witness: alpha = 0.2 and the input 0.1, 0.2, passed one sample per
\* work() call, have given 0.02, 0.056, and run() has returned.
C25_Witness ==
    /\ result.status = "Ok"
    /\ iir.call.alpha = Float(2)
    /\ streams[1].cap = 1
    /\ src.xs = <<Float(Unit \div 10), Float(2 * (Unit \div 10))>>
    /\ seen = <<Float(2 * (Unit \div 100)), Float(56 * (Unit \div 1000))>>

(***************************************************************************)
(* SpecSink: DebugSink::work, statement by statement, on a stream that a   *)
(* producer thread writes to under the same mutex                          *)
(* (src: Arc<Mutex<Stream<T>>>).  pc is [sink, prod, poisoned]: the sink   *)
(* is "idle" outside work(), at "iter" once it has the lock, at "clear"    *)
(* after the printing, at "ret" after clear(), "panicked" if the lock was  *)
(* poisoned; the producer is "idle", "locked" or "dead".                   *)
(***************************************************************************)

\* A wrong scope of the guard: the lock is released after the iteration.
holds_lock_to_read(at) == at = "iter"

\* The sink holds the lock while the guard i is alive: from lock() to the
\* end of work().
holds_lock(at) == at \in {"iter", "clear", "ret"}

\* What the sink's calls have removed from the stream so far.
NoneRemoved == [removed |-> <<>>]

InitSink ==
    /\ NoBuffer
    /\ NoTypes
    /\ NoIIR
    /\ NoOS
    /\ blocks = <<"DebugSink">>
    /\ \E c \in 1..StreamCap : streams = <<Stream_new(c)>>
    /\ \E n \in 0..MaxItems : src = Emits(n)
    /\ eof = <<FALSE>>
    /\ pc = [sink |-> "idle", prod |-> "idle", poisoned |-> FALSE]
    /\ cancel = "none"
    /\ result = "none"
    /\ seen = <<>>
    /\ hist = NoneRemoved

\* let mut i = self.src.lock().unwrap(): waits for the lock, panics if a
\* thread has panicked holding it.
SinkLock ==
    /\ pc.sink = "idle"
    /\ pc.prod # "locked"
    /\ pc' = [pc EXCEPT !.sink = IF pc.poisoned THEN "panicked" ELSE "iter"]
    /\ UNCHANGED <<blocks, streams, src, eof, cancel, result, seen, hist>>
    /\ UNCHANGED <<bvars, ovars>>

\* i.iter().for_each(|s| println!("debug: {:?}", s))
SinkPrint ==
    /\ pc.sink = "iter"
    /\ seen' = seen \o Stream_iter(streams[1])
    /\ pc' = [pc EXCEPT !.sink = "clear"]
    /\ UNCHANGED <<blocks, streams, src, eof, cancel, result, hist>>
    /\ UNCHANGED <<bvars, ovars>>

\* i.clear()
SinkClear ==
    /\ pc.sink = "clear"
    /\ streams' = [streams EXCEPT ![1] = Stream_clear(@)]
    /\ hist' = [hist EXCEPT !.removed = @ \o streams[1].data]
    /\ pc' = [pc EXCEPT !.sink = "ret"]
    /\ UNCHANGED <<blocks, src, eof, cancel, result, seen>>
    /\ UNCHANGED <<bvars, ovars>>

\* Ok(BlockRet::Ok): work() returns and the guard is dropped.
SinkReturn ==
    /\ pc.sink = "ret"
    /\ result' = "Ok"
    /\ pc' = [pc EXCEPT !.sink = "idle"]
    /\ UNCHANGED <<blocks, streams, src, eof, cancel, seen, hist>>
    /\ UNCHANGED <<bvars, ovars>>

\* The producer thread takes the stream's lock.
ProducerLock ==
    /\ pc.prod = "idle"
    /\ ~pc.poisoned
    /\ ~holds_lock(pc.sink)
    /\ pc' = [pc EXCEPT !.prod = "locked"]
    /\ UNCHANGED <<blocks, streams, src, eof, cancel, result, seen, hist>>
    /\ UNCHANGED <<bvars, ovars>>

\* The producer writes what fits of its remaining samples and releases
\* the lock.
ProducerWrite ==
    /\ pc.prod = "locked"
    /\ LET wr == Stream_write(streams[1], src.rest)
       IN  /\ streams' = [streams EXCEPT ![1] = wr.self]
           /\ src' = [src EXCEPT !.rest = SubSeq(@, wr.ret + 1, Len(@))]
    /\ pc' = [pc EXCEPT !.prod = "idle"]
    /\ UNCHANGED <<blocks, eof, cancel, result, seen, hist>>
    /\ UNCHANGED <<bvars, ovars>>

\* The producer panics holding the lock: the mutex is poisoned.
ProducerPanic ==
    /\ pc.prod = "locked"
    /\ pc' = [pc EXCEPT !.prod = "dead", !.poisoned = TRUE]
    /\ UNCHANGED <<blocks, streams, src, eof, cancel, result, seen, hist>>
    /\ UNCHANGED <<bvars, ovars>>

NextSink ==
    \/ SinkLock
    \/ SinkPrint
    \/ SinkClear
    \/ SinkReturn
    \/ ProducerLock
    \/ ProducerWrite
    \/ ProducerPanic

SpecSink == InitSink /\ [][NextSink]_vars

\* C26: with a producer writing to the same stream, what the sink's work()
\* calls have removed is what they have printed, each sample once and in
\* the order written; none of the samples printed is left in the stream
\* once clear() has run; no step of the sink adds a sample to a stream;
\* and work() returns Ok and nothing else.
C26_SinkUnderLock ==
    [][/\ IsPrefix(seen', src.xs)
       /\ IsPrefix(hist'.removed, seen')
       /\ pc'.sink \in {"iter", "ret", "idle", "panicked"} => hist'.removed = seen'
       /\ pc'.sink = "clear" => seen' = hist'.removed \o streams'[1].data
       /\ pc'.sink = "ret" => streams'[1].data = <<>>
       /\ pc'.sink \in {"ret", "idle"} =>
            \A k \in 1..Len(streams'[1].data) : \A j \in 1..Len(seen') :
                streams'[1].data[k] # seen'[j]
       /\ pc'.sink # pc.sink =>
            /\ Len(streams') = 1
            /\ streams'[1].data \in {streams[1].data, <<>>}
            /\ src' = src
       /\ (pc.sink = "ret" /\ pc'.sink = "idle") => result' = "Ok"
       /\ result' \in {"none", "Ok"}
      ]_vars

\* C26 witness: an earlier work() has removed samples; the sink, holding
\* the lock, has printed the samples now in the stream and is about to
\* clear them, while the producer has more to write.
C26_Witness ==
    /\ pc.sink = "clear"
    /\ hist.removed # <<>>
    /\ streams[1].data # <<>>
    /\ src.rest # <<>>
    /\ result = "Ok"

====
